---- MODULE Spec2Model ----
(***************************************************************************)
(* Command-grammar compiler and matcher of the repository, as a state      *)
(* machine.  Three pipelines share one sheet of rows                       *)
(*   "cmd"    : cmd_parser.py  (load_grammar, _compile_template,           *)
(*              parse_command; Python re)                                  *)
(*   "transf" : transf.py      (main's fold over rows, parse_row,          *)
(*              conv_tokens, build_template), the record of a match and    *)
(*              parser_Check.py's round trip                               *)
(*   "fsm"    : parser.py      (compile_excel_to_templates,                *)
(*              _load_templates, parse_command; TextFSM)                   *)
(*                                                                         *)
(* Text is modelled at the granularity the code's regular expressions see: *)
(* a template is the list of its whitespace-separated tokens, a line is    *)
(* the list of its words and single blanks, a verb cell is the list of its *)
(* alias words and separator characters.  Words are atomic.                *)
(***************************************************************************)
EXTENDS Integers, Sequences, FiniteSets, TLC

None == "<None>"               \* Python None / pandas NaN / JSON null
SPC  == " "                    \* one whitespace character of a line
NoResult == [none |-> TRUE]    \* parse_command returned None

(***************************************************************************)
(* Generic helpers                                                         *)
(***************************************************************************)
RECURSIVE Join(_)
Join(ps) == IF ps = <<>> THEN "" ELSE Head(ps) \o Join(Tail(ps))

RECURSIVE JoinWith(_, _)
JoinWith(ps, sep) ==
    IF ps = <<>> THEN ""
    ELSE IF Len(ps) = 1 THEN ps[1]
    ELSE ps[1] \o sep \o JoinWith(Tail(ps), sep)

RECURSIVE Flatten(_)
Flatten(ss) == IF ss = <<>> THEN <<>> ELSE Head(ss) \o Flatten(Tail(ss))

Range(s) == {s[i] : i \in DOMAIN s}

Distinct(s) == \A i, j \in DOMAIN s : i # j => s[i] # s[j]

\* elements of s joined by the separator element x
RECURSIVE Intersperse(_, _)
Intersperse(s, x) ==
    IF Len(s) <= 1 THEN s
    ELSE <<Head(s), x>> \o Intersperse(Tail(s), x)

(***************************************************************************)
(* Template tokens: literal word, <name>, {a|b}, [ ... ]                   *)
(***************************************************************************)
Lit(w)     == [k |-> "lit",    w |-> w,  opts |-> <<>>, inner |-> <<>>]
Var(n)     == [k |-> "var",    w |-> n,  opts |-> <<>>, inner |-> <<>>]
Choice(o)  == [k |-> "choice", w |-> "", opts |-> o,    inner |-> <<>>]
Opt(inner) == [k |-> "opt",    w |-> "", opts |-> <<>>, inner |-> inner]

\* source text of a token
RECURSIVE TokText(_)
TokText(t) ==
    CASE t.k = "lit"    -> t.w
      [] t.k = "var"    -> "<" \o t.w \o ">"
      [] t.k = "choice" -> "{" \o JoinWith(t.opts, "|") \o "}"
      [] t.k = "opt"    ->
           "[" \o JoinWith([i \in DOMAIN t.inner |-> TokText(t.inner[i])], " ") \o "]"

(***************************************************************************)
(* Character tables of the words used below (words are atomic, so what a   *)
(* character-level test of the code sees in a word is tabulated)           *)
(***************************************************************************)
\* str.lower()
Lower(w) == IF w = "ADD" THEN "add" ELSE w

\* the word holds a '[' with no matching ']'
OpensBracket(w) == w \in {"[port"}

\* trailing run of \w characters of a word (what \b(\w+) captures before '<')
WordTail(w) == IF w = "[port" THEN "port" ELSE w

\* re.sub(r"[^\w]+", "_", raw.strip()) of a placeholder name
SanitizeKey(n) == IF n = "ip-addr" THEN "ip_addr" ELSE n

(***************************************************************************)
(* Regular expressions over lines.  A pattern is a list of elements        *)
(*   lit  w        the word w            ws   \s+        ws0  \s*          *)
(*   sp            one blank             eol  $                            *)
(*   cap  n opts   (?P<n>...) : any word when opts is empty, else one of   *)
(*                 the alternatives opts ("" is the empty alternative)     *)
(*   alt  opts     (?:a|b)  ; (?:) when opts is empty                      *)
(*   opt  inner    (?:inner)?                                              *)
(* ci is re.IGNORECASE.                                                    *)
(***************************************************************************)
RLit(w, ci)  == [t |-> "lit", w |-> w,  opts |-> <<>>, inner |-> <<>>, ci |-> ci]
RWs          == [t |-> "ws",  w |-> "", opts |-> <<>>, inner |-> <<>>, ci |-> FALSE]
RWs0         == [t |-> "ws0", w |-> "", opts |-> <<>>, inner |-> <<>>, ci |-> FALSE]
RSp          == [t |-> "sp",  w |-> "", opts |-> <<>>, inner |-> <<>>, ci |-> FALSE]
REol         == [t |-> "eol", w |-> "", opts |-> <<>>, inner |-> <<>>, ci |-> FALSE]
RCap(n, o)   == [t |-> "cap", w |-> n,  opts |-> o,    inner |-> <<>>, ci |-> FALSE]
RAlt(o, ci)  == [t |-> "alt", w |-> "", opts |-> o,    inner |-> <<>>, ci |-> ci]
ROpt(inner)  == [t |-> "opt", w |-> "", opts |-> <<>>, inner |-> inner, ci |-> FALSE]
\* text that needs a backslash in the line (no line of Lines holds one)
RJunk        == [t |-> "junk", w |-> "", opts |-> <<>>, inner |-> <<>>, ci |-> FALSE]

WordEq(a, b, ci) == IF ci THEN Lower(a) = Lower(b) ELSE a = b

\* number of consecutive blanks of s from pos
RECURSIVE SpacesAt(_, _)
SpacesAt(s, pos) ==
    IF pos <= Len(s) /\ s[pos] = SPC THEN 1 + SpacesAt(s, pos + 1) ELSE 0

\* group names of a pattern in group-number order
RECURSIVE GroupNames(_)
GroupNames(p) ==
    IF p = <<>> THEN <<>>
    ELSE LET e == Head(p) IN
         (CASE e.t = "cap" -> <<e.w>>
            [] e.t = "opt" -> GroupNames(e.inner)
            [] OTHER       -> <<>>) \o GroupNames(Tail(p))

\* Matches of pattern p against s[pos..], as the list of the group
\* bindings of every successful path in the backtracking order of re
\* (greedy quantifiers first, alternatives left to right).
RECURSIVE MatchFrom(_, _, _, _), WsTry(_, _, _, _, _, _), AltTry(_, _, _, _, _, _)
MatchFrom(p, s, pos, env) ==
    IF p = <<>> THEN <<env>>
    ELSE LET e == Head(p)
             r == Tail(p)
         IN CASE e.t = "lit" ->
                   IF pos <= Len(s) /\ s[pos] # SPC /\ WordEq(s[pos], e.w, e.ci)
                   THEN MatchFrom(r, s, pos + 1, env) ELSE <<>>
              [] e.t = "ws"  -> WsTry(r, s, pos, env, SpacesAt(s, pos), 1)
              [] e.t = "ws0" -> WsTry(r, s, pos, env, SpacesAt(s, pos), 0)
              [] e.t = "sp"  ->
                   IF pos <= Len(s) /\ s[pos] = SPC
                   THEN MatchFrom(r, s, pos + 1, env) ELSE <<>>
              [] e.t = "eol" ->
                   IF pos = Len(s) + 1 THEN MatchFrom(r, s, pos, env) ELSE <<>>
              [] e.t = "cap" ->
                   IF e.opts = <<>>
                   THEN IF pos <= Len(s) /\ s[pos] # SPC
                        THEN MatchFrom(r, s, pos + 1, [env EXCEPT ![e.w] = s[pos]])
                        ELSE <<>>
                   ELSE AltTry(e, r, s, pos, env, 1)
              [] e.t = "alt" ->
                   IF e.opts = <<>> THEN MatchFrom(r, s, pos, env)
                   ELSE AltTry(e, r, s, pos, env, 1)
              [] e.t = "opt" ->
                   MatchFrom(e.inner \o r, s, pos, env) \o MatchFrom(r, s, pos, env)
              [] e.t = "junk" -> <<>>

\* \s+ / \s* : the longest run first, down to min blanks
WsTry(r, s, pos, env, n, min) ==
    IF n < min THEN <<>>
    ELSE MatchFrom(r, s, pos + n, env) \o WsTry(r, s, pos, env, n - 1, min)

\* alternatives of e from the i-th on, left to right
AltTry(e, r, s, pos, env, i) ==
    IF i > Len(e.opts) THEN <<>>
    ELSE LET o    == e.opts[i]
             bind(v) == IF e.t = "cap" THEN [env EXCEPT ![e.w] = v] ELSE env
             here == IF o = ""
                     THEN MatchFrom(r, s, pos, bind(""))
                     ELSE IF pos <= Len(s) /\ s[pos] # SPC /\ WordEq(s[pos], o, e.ci)
                          THEN MatchFrom(r, s, pos + 1, bind(s[pos]))
                          ELSE <<>>
         IN here \o AltTry(e, r, s, pos, env, i + 1)

\* the match object of a failed match (Python None)
NoMatch == [ok |-> FALSE, groups |-> [n \in {} |-> None]]

\* regex.match(s): groupdict of the first successful path, or no match
ReMatch(p, s) ==
    LET names == GroupNames(p)
        ms    == MatchFrom(p, s, 1, [n \in Range(names) |-> None])
    IN IF ms = <<>> THEN NoMatch ELSE [ok |-> TRUE, groups |-> ms[1]]

\* str.strip() of a line
RECURSIVE StripLeft(_), StripRight(_)
StripLeft(s)  == IF s # <<>> /\ Head(s) = SPC THEN StripLeft(Tail(s)) ELSE s
StripRight(s) == IF s # <<>> /\ s[Len(s)] = SPC
                 THEN StripRight(SubSeq(s, 1, Len(s) - 1)) ELSE s
Strip(s) == StripRight(StripLeft(s))

(***************************************************************************)
(* Sheet rows.  A verb cell is the list of its alias words and separator   *)
(* characters (<<>> is a blank cell), an object cell is a word ("" is a    *)
(* blank cell), a template cell is its token list (<<>> is a blank cell).  *)
(***************************************************************************)
Row(v, o, t) == [verb |-> v, obj |-> o, tpl |-> t]

\* re.split / str.split of a text (list of words and separator characters)
\* on the separator characters seps: the parts as lists, and as strings
RECURSIVE SplitSeq(_, _, _)
SplitSeq(field, seps, cur) ==
    IF field = <<>> THEN <<cur>>
    ELSE IF Head(field) \in seps
         THEN <<cur>> \o SplitSeq(Tail(field), seps, <<>>)
         ELSE SplitSeq(Tail(field), seps, Append(cur, Head(field)))

SplitOn(field, seps, cur) ==
    LET ps == SplitSeq(field, seps, cur) IN [i \in DOMAIN ps |-> Join(ps[i])]

NonEmpty(a) == a # ""

(***************************************************************************)
(* cmd_parser.py                                                           *)
(***************************************************************************)
\* "word <placeholder>" pairs of the template text, left to right
RECURSIVE ConstPairs(_)
ConstPairs(toks) ==
    IF toks = <<>> THEN <<>>
    ELSE LET h == Head(toks) IN
         (IF h.k = "opt" THEN ConstPairs(h.inner)
          ELSE IF h.k = "lit" /\ Len(toks) >= 2 /\ toks[2].k = "var"
               THEN << <<toks[2].w, WordTail(h.w)>> >>
               ELSE <<>>) \o ConstPairs(Tail(toks))

\* const_map: {placeholder: word}, a later pair overwrites an earlier one
ConstMap(tpl) ==
    LET ps == ConstPairs(tpl)
        last(n) == CHOOSE i \in DOMAIN ps :
                      /\ ps[i][1] = n
                      /\ \A j \in DOMAIN ps : ps[j][1] = n => j <= i
    IN [n \in {ps[i][1] : i \in DOMAIN ps} |-> ps[last(n)][2]]

\* const_map.get(k)
MapGet(m, key) == IF key \in DOMAIN m THEN m[key] ELSE None

\* substitutions 1) to 4) of _compile_template on one token
RECURSIVE CmdTokRegex(_)
CmdTokRegex(t) ==
    CASE t.k = "lit"    -> RLit(t.w, TRUE)
      [] t.k = "var"    -> RCap(SanitizeKey(t.w), <<>>)
      [] t.k = "choice" -> RAlt(SelectSeq(t.opts, NonEmpty), TRUE)
      [] t.k = "opt"    ->
           ROpt(Intersperse([i \in DOMAIN t.inner |-> CmdTokRegex(t.inner[i])], RWs))

RECURSIVE LitWords(_)
LitWords(toks) ==
    IF toks = <<>> THEN <<>>
    ELSE LET h == Head(toks) IN
         (CASE h.k = "lit" -> <<h.w>>
            [] h.k = "opt" -> LitWords(h.inner)
            [] OTHER       -> <<>>) \o LitWords(Tail(toks))

\* _compile_template(verb, obj, template): err is re.error raised by
\* re.compile (unterminated character set, redefinition of a group name)
CompileTemplate(verb, obj, tpl) ==
    LET body  == <<RLit(verb, TRUE), RLit(obj, TRUE)>>
                    \o [i \in DOMAIN tpl |-> CmdTokRegex(tpl[i])]
        regex == Intersperse(body, RWs) \o <<REol>>
    IN [err       |-> \/ \E i \in DOMAIN LitWords(tpl) : OpensBracket(LitWords(tpl)[i])
                      \/ ~Distinct(GroupNames(regex)),
        regex     |-> regex,
        const_map |-> ConstMap(tpl)]

CmdSeps == {"/", "|", ","}

\* df[["动作","对象"]].ffill(): the cell of the nearest row at or above i
\* that is not blank
RECURSIVE FFill(_, _, _, _)
FFill(sheet, i, col, blank) ==
    IF i = 0 THEN blank
    ELSE IF sheet[i][col] # blank THEN sheet[i][col]
    ELSE FFill(sheet, i - 1, col, blank)

\* the rules load_grammar appends for row i (src and tpl record where the
\* rule comes from)
CmdRowRules(sheet, i) ==
    LET verb_field == [j \in DOMAIN FFill(sheet, i, "verb", <<>>) |->
                          Lower(FFill(sheet, i, "verb", <<>>)[j])]
        obj        == FFill(sheet, i, "obj", "")
        template   == sheet[i].tpl
        aliases    == SelectSeq(SplitOn(verb_field, CmdSeps, <<>>), NonEmpty)
        rule(v)    == LET c == CompileTemplate(v, obj, template)
                      IN IF c.err THEN <<>>
                         ELSE <<[verb |-> v, obj |-> obj, regex |-> c.regex,
                                 const_map |-> c.const_map,
                                 src |-> i, tpl |-> template]>>
    IN IF template = <<>> \/ verb_field = <<>> \/ obj = "" THEN <<>>
       ELSE IF Head(verb_field) \in CmdSeps THEN <<>>
       ELSE Flatten([a \in DOMAIN aliases |-> rule(aliases[a])])

\* specificity score of a template: 3 for each mandatory literal token, 1
\* for each variable, choice or optional token
RECURSIVE Score(_)
Score(tpl) ==
    IF tpl = <<>> THEN 0
    ELSE LET h == Head(tpl) IN
         (CASE h.k = "lit" -> 3
            [] h.k = "opt" -> Len(h.inner)
            [] OTHER       -> 1) + Score(Tail(tpl))

\* rule r put into the list rs before the first rule of a lower score
RECURSIVE InsertRanked(_, _)
InsertRanked(rs, r) ==
    IF rs = <<>> THEN <<r>>
    ELSE IF Score(Head(rs).tpl) < Score(r.tpl) THEN <<r>> \o rs
    ELSE <<Head(rs)>> \o InsertRanked(Tail(rs), r)

RECURSIVE RankRules(_, _)
RankRules(rs, acc) ==
    IF rs = <<>> THEN acc ELSE RankRules(Tail(rs), InsertRanked(acc, Head(rs)))

\* load_grammar followed by a stable sort on descending score
LoadGrammarRanked(sheet) ==
    RankRules(Flatten([i \in DOMAIN sheet |-> CmdRowRules(sheet, i)]), <<>>)

\* load_grammar
LoadGrammarOf(sheet) == Flatten([i \in DOMAIN sheet |-> CmdRowRules(sheet, i)])

\* the flat record parse_command builds from groupdict m of rule r
CmdRecord(r, m) ==
    LET names == GroupNames(r.regex)
        key(n) == LET prefix == MapGet(r.const_map, n)
                  IN IF prefix # None /\ prefix # "" THEN n \o "\\" \o prefix ELSE n
    IN [verb |-> r.verb, object |-> r.obj,
        args |-> [i \in DOMAIN names |-> <<key(names[i]), m[names[i]]>>]]

(***************************************************************************)
(* transf.py                                                               *)
(***************************************************************************)
\* slug(name): re.sub(r"[\s,]+","_"), drop \W, upper(), strip("_")
Slug(n) ==
    CASE n = "a"       -> "A"
      [] n = "a_2"     -> "A_2"
      [] n = "ip"      -> "IP"
      [] n = "ip-addr" -> "IPADDR"
      [] n = "p"       -> "P"
      [] n = "x"       -> "X"
      [] n = "y"       -> "Y"
      [] n = "host"    -> "HOST"
      [] n = "port"    -> "PORT"
      [] n = "[port"   -> "PORT"
      [] n = "all"     -> "ALL"
      [] n = "force"   -> "FORCE"
      [] n = "s"       -> "S"
      [] OTHER         -> "VAR"

\* get_unique_var_name: the name and the updated counts
UniqueVarName(base, counts) ==
    LET count == (IF base \in DOMAIN counts THEN counts[base] ELSE 0) + 1
    IN [name   |-> IF count > 1 THEN base \o "_" \o ToString(count) ELSE base,
        counts |-> [b \in DOMAIN counts \cup {base} |->
                       IF b = base THEN count ELSE counts[b]]]

\* a reference ${NAME} in a TextFSM rule
RRef(n) == [t |-> "ref", w |-> n, opts |-> <<>>, inner |-> <<>>, ci |-> FALSE]

\* entries of arg_token_templates
TokTemplate(type, value, name, is_optional, options) ==
    [type |-> type, value |-> value, name |-> name,
     is_optional |-> is_optional, options |-> options]

EmptyMap == [n \in {} |-> <<>>]
MapPut(m, key, v) == [n \in DOMAIN m \cup {key} |-> IF n = key THEN v ELSE m[n]]
MapUpdate(m, m2)  == [n \in DOMAIN m \cup DOMAIN m2 |->
                         IF n \in DOMAIN m2 THEN m2[n] ELSE m[n]]

\* what conv_tokens has accumulated: parts (each part is the elements glued
\* into one entry of the list `parts`), vars_list, token_templates,
\* value_regex_map (the alternatives of a Value; <<>> is \S+) and var_counts
ConvState(parts, vars, tts, vmap, counts) ==
    [parts |-> parts, vars |-> vars, tts |-> tts, vmap |-> vmap, counts |-> counts]

\* a "Literal keyword" branch that leaves the optional keyword out of
\* token_templates
ConvLitUnlisted(st, tok, is_optional) ==
    IF is_optional
    THEN LET u == UniqueVarName("OPT_KW_" \o Slug(tok.w), st.counts)
         IN ConvState(
              Append(st.parts, <<RRef(u.name)>>),
              Append(st.vars, u.name),
              st.tts,
              MapPut(st.vmap, u.name, <<tok.w>>),
              u.counts)
    ELSE ConvState(
              Append(st.parts, <<RLit(tok.w, FALSE)>>),
              st.vars,
              Append(st.tts, TokTemplate("keyword", tok.w, None, FALSE, <<>>)),
              st.vmap, st.counts)

\* conv_tokens, branch "Literal keyword": an optional keyword becomes a
\* Value of its own, a mandatory one stays in the pattern
ConvLit(st, tok, is_optional) ==
    IF is_optional
    THEN LET u == UniqueVarName("OPT_KW_" \o Slug(tok.w), st.counts)
         IN ConvState(
              Append(st.parts, <<RRef(u.name)>>),
              Append(st.vars, u.name),
              Append(st.tts, TokTemplate("keyword", tok.w, u.name, TRUE, <<>>)),
              MapPut(st.vmap, u.name, <<tok.w>>),
              u.counts)
    ELSE ConvState(
              Append(st.parts, <<RLit(tok.w, FALSE)>>),
              st.vars,
              Append(st.tts, TokTemplate("keyword", tok.w, None, FALSE, <<>>)),
              st.vmap, st.counts)

\* conv_tokens, branch "Variable, Choice, or Enum" (<...> and {...})
ConvVar(st, tok, is_optional) ==
    LET content   == IF tok.k = "var" THEN tok.w ELSE JoinWith(tok.opts, "|")
        is_choice == tok.k = "choice" /\ Len(tok.opts) > 1
        u == UniqueVarName(IF is_choice THEN "OPTION" ELSE Slug(content), st.counts)
    IN ConvState(
         Append(st.parts, <<RRef(u.name)>>),
         Append(st.vars, u.name),
         Append(st.tts, TokTemplate("variable", None, u.name, is_optional,
                                    IF is_choice THEN tok.opts ELSE <<>>)),
         MapPut(st.vmap, u.name, IF is_choice THEN tok.opts ELSE <<>>),
         u.counts)

\* conv_tokens: one iteration of the loop over tokens, from state st
RECURSIVE ConvTokens(_, _, _)
ConvStep(st, tok, is_optional) ==
    CASE tok.k = "opt" ->
           LET sub   == ConvTokens(tok.inner,
                                   ConvState(<<>>, <<>>, <<>>, EmptyMap, st.counts), TRUE)
               inner == Flatten(Intersperse(sub.parts, <<RWs>>))
           IN ConvState(
                IF st.parts # <<>>
                THEN [st.parts EXCEPT ![Len(st.parts)] = @ \o <<ROpt(<<RWs>> \o inner)>>]
                ELSE << <<ROpt(inner)>> >>,
                st.vars \o sub.vars, st.tts \o sub.tts,
                MapUpdate(st.vmap, sub.vmap), sub.counts)
      [] tok.k \in {"var", "choice"} -> ConvVar(st, tok, is_optional)
      [] tok.k = "lit" -> ConvLit(st, tok, is_optional)

ConvTokens(tokens, st, is_optional) ==
    IF tokens = <<>> THEN st
    ELSE ConvTokens(Tail(tokens), ConvStep(st, Head(tokens), is_optional), is_optional)

\* "\s+".join(parts)
ConvPattern(st) == Flatten(Intersperse(st.parts, <<RWs>>))

\* the text of pattern element e holds the text a of an escaped literal
\* (words are atomic: a literal holds exactly its own text, the separator
\* "\s+" holds the word "s", a reference "${NAME}" holds the word NAME, and
\* "(?:" and ")?" hold no word)
RECURSIVE TextHolds(_, _)
TextHolds(e, a) ==
    CASE e.t = "lit" -> e.w = a
      [] e.t = "ws"  -> a = "s"
      [] e.t = "ref" -> e.w = a
      [] e.t = "opt" -> \E i \in DOMAIN e.inner : TextHolds(e.inner[i], a)
      [] OTHER       -> FALSE

\* final_pattern.rsplit(anchor, 1) joined by ${anchor_name}: the last
\* occurrence of the anchor text is replaced; done is len(parts) == 2
SpliceAnchor(pattern, a, anchor_name) ==
    LET hits == {i \in DOMAIN pattern : TextHolds(pattern[i], a)}
        last == CHOOSE i \in hits : \A j \in hits : j <= i
    IN IF hits = {} THEN [pattern |-> pattern, done |-> FALSE, broken |-> FALSE]
       ELSE IF pattern[last].t = "lit"
            THEN [pattern |-> [pattern EXCEPT ![last] = RRef(anchor_name)],
                  done |-> TRUE, broken |-> FALSE]
            ELSE [pattern |-> pattern, done |-> TRUE, broken |-> TRUE]

\* build_template, the search for the anchor: index in arg_token_templates
\* of the last keyword that is not optional, 0 when there is none
AnchorIndex(arg_tts) ==
    LET cands == {i \in DOMAIN arg_tts :
                     arg_tts[i].type = "keyword" /\ ~arg_tts[i].is_optional}
    IN IF cands = {} THEN 0 ELSE CHOOSE i \in cands : \A j \in cands : j <= i

\* build_template: the name of the anchor Value
AnchorName(literal, vlist) ==
    LET name0 == "ANCHOR_" \o Slug(literal)
    IN IF name0 \in Range(vlist) THEN name0 \o "_2" ELSE name0

\* build_template: what is returned and written once the anchor is spliced
\* (sp); the rule line ends in \s*$$
Anchored(st, arg_tts, literal, anchor_name, sp) ==
    [pattern |-> sp.pattern \o <<RWs0, REol>>,
     values  |-> MapPut(st.vmap, anchor_name, <<literal>>),
     vlist   |-> IF sp.done THEN Append(st.vars, anchor_name) ELSE st.vars,
     arg_token_templates |-> arg_tts,
     broken  |-> sp.broken]

\* build_template after conv_tokens returned st (verb and object are one
\* token each)
BuildFrom(st) ==
    LET verb_tok_count == 1
        obj_tok_count  == 1
        arg_tts == SubSeq(st.tts, verb_tok_count + obj_tok_count + 1, Len(st.tts))
        anchor_token_index == AnchorIndex(arg_tts)
        literal == arg_tts[anchor_token_index].value
        anchor_name == AnchorName(literal, st.vars)
    IN IF anchor_token_index = 0
       THEN [pattern |-> ConvPattern(st) \o <<RWs0, REol>>,
             values |-> st.vmap, vlist |-> st.vars,
             arg_token_templates |-> arg_tts, broken |-> FALSE]
       ELSE Anchored(st, arg_tts, literal, anchor_name,
                     SpliceAnchor(ConvPattern(st), literal, anchor_name))

\* build_template(cmd_body, verb, obj, tpl_id) for cmd_body = verb obj tpl:
\* the rule line of the template, its Value definitions, vlist and
\* arg_token_templates
BuildTemplate(verb, obj, tpl) ==
    BuildFrom(ConvTokens(<<Lit(verb), Lit(obj)>> \o tpl,
                         ConvState(<<>>, <<>>, <<>>, EmptyMap, EmptyMap), FALSE))

TransfSeps == {"/"}

\* a word holds a CJK character (the word is written by its code points)
HasChinese(w) == w \in {"U+8BF4U+660E"}

TplHasChinese(tpl) == \E i \in DOMAIN LitWords(tpl) : HasChinese(LitWords(tpl)[i])

\* parse_row(row, prev_v, prev_o): the (verb, obj, tpl) records of one row.
\* pv is a verb cell text (list of words and separators), po a word; <<>>
\* and "" stand for None
ParseRow(row, pv, po) ==
    LET verb == IF row.verb # <<>> THEN row.verb ELSE pv
        obj  == IF row.obj # "" THEN row.obj ELSE po
        verbs == SelectSeq(SplitOn(verb, TransfSeps, <<>>), NonEmpty)
    IN IF row.tpl = <<>> THEN <<>>
       ELSE IF verb = <<>> \/ obj = "" THEN <<>>
       ELSE IF Lower(Join(verb)) = "show" \/ HasChinese(Join(verb))
               \/ HasChinese(obj) \/ TplHasChinese(row.tpl) THEN <<>>
       ELSE [i \in DOMAIN verbs |-> [verb |-> verbs[i], obj |-> obj, tpl |-> row.tpl]]

(***************************************************************************)
(* TextFSM (library): a template with one rule "^pattern -> Record" in     *)
(* state Start.  values maps each Value name to its regex alternatives     *)
(* (<<>> is \S+), header lists the Value names in definition order.        *)
(***************************************************************************)
\* string.Template substitution of ${NAME} by (?P<NAME>regex)
RECURSIVE FsmSubst(_, _)
FsmSubst(pattern, values) ==
    [i \in DOMAIN pattern |->
        LET e == pattern[i] IN
        CASE e.t = "ref" -> RCap(e.w, IF e.w \in DOMAIN values THEN values[e.w] ELSE <<>>)
          [] e.t = "opt" -> ROpt(FsmSubst(e.inner, values))
          [] OTHER       -> e]

RECURSIVE RefNames(_)
RefNames(p) ==
    IF p = <<>> THEN <<>>
    ELSE LET e == Head(p) IN
         (CASE e.t = "ref" -> <<e.w>>
            [] e.t = "opt" -> RefNames(e.inner)
            [] OTHER       -> <<>>) \o RefNames(Tail(p))

\* textfsm.TextFSM(fh) accepts the template: it has a Value, every
\* reference names a Value and the rule compiles (no group name twice)
FsmLoads(pattern, values, broken) ==
    /\ ~broken
    /\ DOMAIN values # {}
    /\ Range(RefNames(pattern)) \subseteq DOMAIN values
    /\ Distinct(RefNames(pattern))

\* Reset() then ParseText(line + "\n"): ok when the result holds a record,
\* with the Value bindings of that record.  The result is empty when the
\* rule does not match or the whole record is empty (_AppendRecord drops a
\* record whose values are all None); None values are stored as "".
FsmParseText(pattern, values, s) ==
    LET m == ReMatch(FsmSubst(pattern, values), s)
        g == m.groups
    IN IF ~m.ok \/ \A n \in DOMAIN g : g[n] = None THEN NoMatch
       ELSE [ok |-> TRUE,
             groups |-> [n \in DOMAIN values |->
                            IF n \in DOMAIN g /\ g[n] # None THEN g[n] ELSE ""]]

\* The records a TextFSM object has accumulated (_result).  Reset() empties
\* the list; ParseText appends the record of the line, if any, and returns
\* the whole list.
FsmResetNothing(res) == res

FsmReset(res) == <<>>

FsmParse(res, pattern, values, s) ==
    LET m == FsmParseText(pattern, values, s)
    IN IF m.ok THEN Append(res, m.groups) ELSE res

(***************************************************************************)
(* The record of a match of a transf.py rule: verb and object of the       *)
(* metadata, one arg_tokens entry per entry of arg_token_templates with    *)
(* the captured value (None when the slot took no part), and RAW           *)
(***************************************************************************)
BuildRecord(rule, rec, raw) ==
    [verb |-> rule.verb, object |-> rule.obj,
     arg_tokens |->
        [i \in DOMAIN rule.arg_token_templates |->
            LET tt == rule.arg_token_templates[i] IN
            [type |-> tt.type, name |-> tt.name, optional |-> tt.is_optional,
             value |-> IF tt.name = None THEN tt.value
                       ELSE IF rec[tt.name] = "" THEN None ELSE rec[tt.name]]],
     RAW |-> raw]

(***************************************************************************)
(* parser_Check.py                                                         *)
(***************************************************************************)
\* re.sub(r'\s+', ' ', text).strip()
RECURSIVE CollapseSpaces(_)
CollapseSpaces(s) ==
    IF Len(s) <= 1 THEN s
    ELSE IF s[1] = SPC /\ s[2] = SPC THEN CollapseSpaces(Tail(s))
    ELSE <<s[1]>> \o CollapseSpaces(Tail(s))

normalize_space(s) == Strip(CollapseSpaces(s))

Kept(tok) == tok.value # None /\ tok.value # ""

\* reassemble_command(json_obj)
reassemble_command(json) ==
    LET toks  == SelectSeq(json.arg_tokens, Kept)
        parts == <<json.verb, json.object>> \o [i \in DOMAIN toks |-> toks[i].value]
    IN normalize_space(Intersperse(parts, SPC))

(***************************************************************************)
(* parser.py                                                               *)
(***************************************************************************)
\* _normalize_var: name.strip().replace("-", "_").upper()
NormalizeVar(n) ==
    CASE n = "a"       -> "A"
      [] n = "a_2"     -> "A_2"
      [] n = "ip"      -> "IP"
      [] n = "ip-addr" -> "IP_ADDR"
      [] n = "p"       -> "P"
      [] n = "x"       -> "X"
      [] n = "y"       -> "Y"
      [] OTHER         -> n

\* h.lower() of a header name
HeaderLower(h) ==
    CASE h = "A"          -> "a"
      [] h = "A_2"        -> "a_2"
      [] h = "IP"         -> "ip"
      [] h = "IP_ADDR"    -> "ip_addr"
      [] h = "P"          -> "p"
      [] h = "X"          -> "x"
      [] h = "Y"          -> "y"
      [] h = "KEYWORD_1"  -> "keyword_1"
      [] h = "KEYWORD_2"  -> "keyword_2"
      [] OTHER            -> h

\* a word holds a character of SPECIAL_CHARS, which _escape prefixes with
\* two backslashes
HasSpecial(w) == w \in {"[port"}

\* what _expand_template has accumulated for one branch
ExpState(body, values, lines_value, kw_counter) ==
    [body |-> body, values |-> values, lines_value |-> lines_value,
     kw_counter |-> kw_counter]

\* _expand_template: one (kind, data) entry of the branch.  An optional
\* block is no token of this compiler: its text is literal words holding
\* '[' and ']'.
ExpStep(st, tok) ==
    CASE tok.k = "lit" ->
           [st EXCEPT !.body = Append(@, IF HasSpecial(tok.w) THEN RJunk
                                         ELSE RLit(tok.w, FALSE))]
      [] tok.k = "opt" -> [st EXCEPT !.body = Append(@, RJunk)]
      [] tok.k = "var" ->
           LET var == NormalizeVar(tok.w) IN
           ExpState(Append(st.body, RRef(var)),
                    IF var \in Range(st.values) THEN st.values ELSE Append(st.values, var),
                    IF var \in Range(st.values) THEN st.lines_value
                    ELSE MapPut(st.lines_value, var, <<>>),
                    st.kw_counter)
      [] tok.k = "choice" ->
           LET kw == "KEYWORD_" \o ToString(st.kw_counter) IN
           ExpState(Append(st.body, RRef(kw)),
                    Append(st.values, kw),
                    MapPut(st.lines_value, kw, tok.opts),
                    st.kw_counter + 1)

RECURSIVE ExpFold(_, _)
ExpFold(toks, st) ==
    IF toks = <<>> THEN st ELSE ExpFold(Tail(toks), ExpStep(st, Head(toks)))

\* _expand_template(verb, obj, tmpl): the template of the one branch (no
\* placeholder of Rows lists several names).  bad: the rule text holds an
\* unterminated character set, so that textfsm.TextFSM rejects the file.
ExpandTemplate(verb, obj, tmpl) ==
    LET st == ExpFold(tmpl, ExpState(<<>>, <<>>, EmptyMap, 1))
    IN [pattern |-> <<RLit(verb, FALSE), RSp, RLit(obj, FALSE), RSp>>
                       \o Intersperse(st.body, RSp) \o <<REol>>,
        values  |-> st.lines_value,
        header  |-> st.values,
        bad     |-> \E i \in DOMAIN tmpl : tmpl[i].k = "lit" /\ OpensBracket(tmpl[i].w)]

SKIP_VERBS == {"show"}
FsmSeps    == {"/"}

\* str() of a cell after ffill: a cell that is still NaN reads "nan"
FsmVerbCell(sheet, i) ==
    LET v == FFill(sheet, i, "verb", <<>>) IN IF v = <<>> THEN <<"nan">> ELSE v
FsmObjCell(sheet, i) ==
    LET o == FFill(sheet, i, "obj", "") IN IF o = "" THEN "nan" ELSE o

\* the (vb, obj, template) triples compile_excel_to_templates writes for row i
FsmRowTemplates(sheet, i) ==
    LET verb  == FsmVerbCell(sheet, i)
        obj   == FsmObjCell(sheet, i)
        verbs == SplitOn(verb, FsmSeps, <<>>)
    IN IF sheet[i].tpl = <<>> \/ TplHasChinese(sheet[i].tpl) THEN <<>>
       ELSE IF Lower(Join(verb)) \in SKIP_VERBS THEN <<>>
       ELSE [j \in DOMAIN verbs |->
                [vb |-> verbs[j], obj |-> obj, src |-> i,
                 tmpl |-> ExpandTemplate(verbs[j], obj, sheet[i].tpl)]]

\* f"{counter:04d}"
Ctr4(n) == IF n < 10 THEN "000" \o ToString(n)
           ELSE IF n < 100 THEN "00" \o ToString(n)
           ELSE IF n < 1000 THEN "0" \o ToString(n) ELSE ToString(n)

\* the characters '_' and '.' of a word and the text between them
FnamePieces(w) == IF w = "link_group" THEN <<"link", "_", "group">> ELSE <<w>>

\* f"{counter:04d}_{vb}_{obj}.template" as a list of pieces
FileName(counter, vb, obj) ==
    <<Ctr4(counter), "_">> \o FnamePieces(vb) \o <<"_">> \o FnamePieces(obj)
        \o <<".", "template">>

\* compile_excel_to_templates: the files of the output directory (vb, obj
\* and src record what each file was written for)
CompileExcel(sheet) ==
    LET ts == Flatten([i \in DOMAIN sheet |-> FsmRowTemplates(sheet, i)])
    IN {[name |-> FileName(c - 1, ts[c].vb, ts[c].obj), ctr |-> c - 1,
         vb |-> ts[c].vb, obj |-> ts[c].obj,
         src |-> ts[c].src, tmpl |-> ts[c].tmpl] : c \in DOMAIN ts}

\* sorted(dir_path.glob("*.template")): names start with the zero-padded
\* counter, so they sort by it
RECURSIVE SortedFiles(_)
SortedFiles(dir) ==
    IF dir = {} THEN <<>>
    ELSE LET f == CHOOSE g \in dir : \A h \in dir : g.ctr <= h.ctr
         IN <<f>> \o SortedFiles(dir \ {f})

\* _extract_verb_obj_from_fname
ExtractVerbObj(fname) ==
    LET parts == SplitSeq(fname, {"_"}, <<>>)
    IN IF Len(parts) >= 3
       THEN <<Join(parts[2]), Join(SplitSeq(parts[3], {"."}, <<>>)[1])>>
       ELSE <<"", "">>

Truthy(pair) == pair[2] # ""

\* the dict parse_command returns for record rec of file f
FsmRecord(f, rec) ==
    LET headers == [i \in DOMAIN f.tmpl.header |-> HeaderLower(f.tmpl.header[i])]
        vo      == ExtractVerbObj(f.name)
    IN [verb |-> vo[1], object |-> vo[2],
        args |-> SelectSeq([i \in DOMAIN headers |->
                               <<headers[i], rec[f.tmpl.header[i]]>>], Truthy),
        template |-> f.name]

(***************************************************************************)
(* Inputs                                                                  *)
(***************************************************************************)
MaxRows  == 2      \* rows of a sheet
MaxGap   == 2      \* blanks between the object and the arguments of a line
MaxTrail == 1      \* blanks at the end of a line

tA     == <<Lit("host"), Var("ip")>>
tB     == <<Var("x"), Var("y")>>
tOpt   == <<Lit("host"), Opt(<<Lit("port"), Var("p")>>)>>
tEmpty == <<Choice(<<"", "">>)>>
tUnbal == <<Lit("[port"), Var("p")>>
tDup   == <<Var("a"), Var("a"), Var("a_2")>>
tChoice == <<Choice(<<"enable", "disable">>)>>
tHyphen == <<Lit("host"), Var("ip-addr")>>
tS      == <<Lit("s"), Var("x")>>

Rows ==
    { Row(<<"add">>, "syslog", tA),
      Row(<<"add">>, "syslog", tB),
      Row(<<"add">>, "syslog", tOpt),
      Row(<<"bind", "/", "unbind">>, "syslog", tA),
      Row(<<"bind", ",", "unbind">>, "syslog", tA),
      Row(<<>>, "", tB),
      Row(<<"add">>, "syslog", tEmpty),
      Row(<<"add">>, "syslog", tUnbal),
      Row(<<"add">>, "syslog", tDup) }

\* rows with a choice, a placeholder name with "-", an object with "_" and
\* a one-letter keyword
Rows2 ==
    { Row(<<"add">>, "syslog", tA),
      Row(<<"add">>, "syslog", tChoice),
      Row(<<"add">>, "link_group", tHyphen),
      Row(<<"add">>, "syslog", tS) }

Sheets == UNION {[1..n -> Rows] \cup [1..n -> Rows2] : n \in 1..MaxRows}

LineWords ==
    { <<"add", "syslog", "host", "1">>,
      <<"add", "syslog", "host">>,
      <<"add", "syslog", "host", "port", "1">>,
      <<"ADD", "syslog", "host", "1">>,
      <<"unbind", "syslog", "host", "1">>,
      <<"add", "syslog">> }

Blanks(n) == [i \in 1..n |-> SPC]

\* the words ws with one blank between them, g blanks after the object and
\* t blanks at the end
Spaced(ws, g, t) ==
    <<ws[1], SPC, ws[2]>>
       \o (IF Len(ws) > 2 THEN Blanks(g) \o Intersperse(SubSeq(ws, 3, Len(ws)), SPC)
           ELSE <<>>)
       \o Blanks(t)

\* lines for the rows of Rows2, single blanks
LineWords2 ==
    { <<"add", "syslog", "enable">>,
      <<"add", "syslog", "maybe">>,
      <<"add", "link_group", "host", "1">>,
      <<"add", "syslog", "s", "1">> }

Lines == {Spaced(ws, g, t) : ws \in LineWords, g \in 1..MaxGap, t \in 0..MaxTrail}
            \cup {Spaced(ws, 1, 0) : ws \in LineWords2}

(***************************************************************************)
(* State                                                                   *)
(***************************************************************************)
VARIABLES
    impl,      \* the pipeline that runs: "cmd", "transf" or "fsm"
    sheet,     \* the rows of the grammar sheet
    pc,        \* start, rows, build, compiled, ready, scan, matched,
               \* unmatched, fatal
    ri,        \* transf.main: index of the next row of the fold
    prev_v,    \* transf.main: carried verb
    prev_o,    \* transf.main: carried object
    records,   \* transf.main: records
    dir,       \* parser.py: the files of the template directory
    grammar,   \* the rule list: grammar (cmd), templates (fsm), the
               \* template/metadata pairs written by transf.main
    line,      \* the line being parsed
    k,         \* index of the rule being tried
    tried,     \* indices of the rules tried for this line, in order
    result,    \* what parse_command returned (NoResult: None)
    fsm        \* parser.py: _result of the TextFSM object of each template

vars == <<impl, sheet, pc, ri, prev_v, prev_o, records, dir, grammar,
          line, k, tried, result, fsm>>

compileVars == <<ri, prev_v, prev_o, records, dir, grammar>>
lineVars    == <<line, k, tried, result>>

Init ==
    /\ impl \in {"cmd", "transf", "fsm"}
    /\ sheet \in Sheets
    /\ pc = "start"
    /\ ri = 1
    /\ prev_v = <<>>
    /\ prev_o = ""
    /\ records = <<>>
    /\ dir = {}
    /\ grammar = <<>>
    /\ line = <<>>
    /\ k = 0
    /\ tried = <<>>
    /\ result = NoResult
    /\ fsm = <<>>

(***************************************************************************)
(* Compilation                                                             *)
(***************************************************************************)
\* cmd_parser.main: grammar = load_grammar(xlsx_path)
LoadGrammar ==
    /\ impl = "cmd" /\ pc = "start"
    /\ grammar' = LoadGrammarOf(sheet)
    /\ pc' = IF grammar' = <<>> THEN "fatal" ELSE "ready"
    /\ UNCHANGED <<impl, sheet, ri, prev_v, prev_o, records, dir>>
    /\ UNCHANGED lineVars
    /\ UNCHANGED fsm

\* parser.main --compile: compile_excel_to_templates(excel_path, outdir)
CompileTemplates ==
    /\ impl = "fsm" /\ pc = "start"
    /\ dir' = CompileExcel(sheet)
    /\ pc' = "compiled"
    /\ UNCHANGED <<impl, sheet, ri, prev_v, prev_o, records, grammar>>
    /\ UNCHANGED lineVars
    /\ UNCHANGED fsm

\* parser.main: templates = _load_templates(TEMPLATE_DIR); the process ends
\* when the directory is empty or textfsm.TextFSM raises
LoadTemplates ==
    /\ impl = "fsm" /\ pc = "compiled"
    /\ IF dir # {} /\ \A f \in dir : FsmLoads(f.tmpl.pattern, f.tmpl.values, f.tmpl.bad)
       THEN /\ grammar' = SortedFiles(dir)
            /\ fsm' = [i \in DOMAIN grammar' |-> <<>>]
            /\ pc' = "ready"
       ELSE grammar' = grammar /\ fsm' = fsm /\ pc' = "fatal"
    /\ UNCHANGED <<impl, sheet, ri, prev_v, prev_o, records, dir>>
    /\ UNCHANGED lineVars

\* transf.main: one iteration of the loop over sheet.iter_rows
\* (src records the row a record comes from)
TransfRow ==
    /\ impl = "transf" /\ pc = "start" /\ ri <= Len(sheet)
    /\ LET row  == sheet[ri]
           recs == ParseRow(row, prev_v, prev_o)
       IN IF recs # <<>>
          THEN /\ prev_v' = <<recs[1].verb>>
               /\ prev_o' = recs[1].obj
               /\ records' = records \o
                     [i \in DOMAIN recs |->
                         [verb |-> recs[i].verb, obj |-> recs[i].obj,
                          tpl |-> recs[i].tpl, src |-> ri]]
          ELSE /\ prev_v' = IF row.verb # <<>> THEN row.verb ELSE prev_v
               /\ prev_o' = IF row.obj # "" THEN row.obj ELSE prev_o
               /\ records' = records
    /\ ri' = ri + 1
    /\ UNCHANGED <<impl, sheet, pc, dir, grammar>>
    /\ UNCHANGED lineVars
    /\ UNCHANGED fsm

\* transf.main after the loop: sys.exit when there is no record
TransfRowsDone ==
    /\ impl = "transf" /\ pc = "start" /\ ri > Len(sheet)
    /\ pc' = IF records = <<>> THEN "fatal" ELSE "build"
    /\ UNCHANGED <<impl, sheet>>
    /\ UNCHANGED compileVars
    /\ UNCHANGED lineVars
    /\ UNCHANGED fsm

\* the rule transf.main writes for record rec: .template and .json
TransfRule(rec) ==
    [verb |-> rec.verb, obj |-> rec.obj, tpl |-> rec.tpl, src |-> rec.src]
        @@ BuildTemplate(rec.verb, rec.obj, rec.tpl)

\* transf.main: one iteration of the loop over records
TransfBuild ==
    /\ impl = "transf" /\ pc = "build"
    /\ grammar' = Append(grammar, TransfRule(records[Len(grammar) + 1]))
    /\ pc' = IF Len(grammar') = Len(records) THEN "ready" ELSE "build"
    /\ UNCHANGED <<impl, sheet, ri, prev_v, prev_o, records, dir>>
    /\ UNCHANGED lineVars
    /\ UNCHANGED fsm

(***************************************************************************)
(* Matching                                                                *)
(***************************************************************************)
Terminal == {"ready", "matched", "unmatched"}


\* what one rule gives for the line: groupdict (cmd), record (fsm)
RuleMatch(rule, s) ==
    IF impl = "cmd" THEN ReMatch(rule.regex, s)
    ELSE FsmParseText(rule.tmpl.pattern, rule.tmpl.values, s)

RuleRecord(rule, m) ==
    IF impl = "cmd" THEN CmdRecord(rule, m) ELSE FsmRecord(rule, m)

\* parse_command(cmd, grammar) is called
StartLine(l) ==
    /\ impl \in {"cmd", "fsm"} /\ pc \in Terminal
    /\ line' = IF impl = "cmd" THEN Strip(l) ELSE l
    /\ k' = 1
    /\ tried' = <<>>
    /\ result' = NoResult
    /\ pc' = "scan"
    /\ UNCHANGED <<impl, sheet>>
    /\ UNCHANGED compileVars
    /\ UNCHANGED fsm

\* a loop that never returns early
ScanNextNoReturn(matched, kk) == [pc |-> "scan", k |-> kk + 1]

\* a loop that steps over a rule after a failed one
ScanNextSkip(matched, kk) ==
    IF matched THEN [pc |-> "matched", k |-> kk] ELSE [pc |-> "scan", k |-> kk + 2]

\* where the loop of parse_command goes after rule kk: return on a match,
\* continue otherwise
ScanNext(matched, kk) ==
    IF matched THEN [pc |-> "matched", k |-> kk] ELSE [pc |-> "scan", k |-> kk + 1]

\* what parse_command sees of one rule: m of regex.match(cmd) (cmd), the
\* first record of the list res that ParseText returned, if any (fsm)
RuleUse(rule, s, res) ==
    IF impl = "cmd" THEN ReMatch(rule.regex, s)
    ELSE IF res = <<>> THEN NoMatch ELSE [ok |-> TRUE, groups |-> res[1]]

\* parse_command: one iteration of the loop over the rules
TryRule ==
    /\ impl \in {"cmd", "fsm"} /\ pc = "scan" /\ k <= Len(grammar)
    /\ fsm' = IF impl = "fsm"
              THEN [fsm EXCEPT ![k] = FsmParse(FsmReset(fsm[k]), grammar[k].tmpl.pattern,
                                               grammar[k].tmpl.values, line)]
              ELSE fsm
    /\ LET m  == RuleUse(grammar[k], line, IF impl = "fsm" THEN fsm'[k] ELSE <<>>)
           nx == ScanNext(m.ok, k)
       IN /\ pc' = nx.pc
          /\ k' = nx.k
          /\ result' = IF m.ok THEN RuleRecord(grammar[k], m.groups) ELSE result
    /\ tried' = Append(tried, k)
    /\ UNCHANGED <<impl, sheet, line>>
    /\ UNCHANGED compileVars

\* parse_command: the loop is over, return None
Exhausted ==
    /\ impl \in {"cmd", "fsm"} /\ pc = "scan" /\ k > Len(grammar)
    /\ pc' = "unmatched"
    /\ result' = NoResult
    /\ UNCHANGED <<impl, sheet, line, k, tried>>
    /\ UNCHANGED compileVars
    /\ UNCHANGED fsm

\* one rule written by transf.main is loaded and run on line l, the record
\* of the match is built and handed to parser_Check
TransfMatch(i, l) ==
    /\ impl = "transf" /\ pc = "ready"
    /\ FsmLoads(grammar[i].pattern, grammar[i].values, grammar[i].broken)
    /\ LET rec == FsmParseText(grammar[i].pattern, grammar[i].values, l)
       IN /\ result' = IF rec.ok THEN BuildRecord(grammar[i], rec.groups, l) ELSE NoResult
          /\ pc' = IF rec.ok THEN "matched" ELSE "unmatched"
    /\ line' = l
    /\ k' = i
    /\ tried' = <<i>>
    /\ UNCHANGED <<impl, sheet>>
    /\ UNCHANGED compileVars
    /\ UNCHANGED fsm

Next ==
    \/ LoadGrammar
    \/ CompileTemplates
    \/ LoadTemplates
    \/ TransfRow
    \/ TransfRowsDone
    \/ TransfBuild
    \/ \E l \in Lines : StartLine(l)
    \/ TryRule
    \/ Exhausted
    \/ \E i \in DOMAIN grammar, l \in Lines : TransfMatch(i, l)

Spec == Init /\ [][Next]_vars


(***************************************************************************)
(* Properties                                                              *)
(***************************************************************************)
Matching == impl \in {"cmd", "fsm"}

Loaded == pc \in {"ready", "scan", "matched", "unmatched"}

Done == pc \in {"matched", "unmatched"}

UpTo(n) == [i \in 1..n |-> i]

\* the template of the row rule i was compiled from
RuleTpl(i) == sheet[grammar[i].src].tpl

MatchesLine(i) == RuleMatch(grammar[i], line).ok

MatchingRules == {i \in DOMAIN grammar : MatchesLine(i)}

FirstOf(S) == CHOOSE i \in S : \A j \in S : i <= j

\* the verb label of rule i and the aliases its row declares, in order
RuleVerb(i) ==
    IF impl = "fsm" THEN ExtractVerbObj(grammar[i].name)[1] ELSE grammar[i].verb

RowAliases(r) ==
    IF impl = "fsm" THEN SplitOn(FsmVerbCell(sheet, r), FsmSeps, <<>>)
    ELSE SplitOn([j \in DOMAIN FFill(sheet, r, "verb", <<>>) |->
                     Lower(FFill(sheet, r, "verb", <<>>)[j])], CmdSeps, <<>>)

AliasIdx(i) ==
    CHOOSE a \in DOMAIN RowAliases(grammar[i].src) :
        RowAliases(grammar[i].src)[a] = RuleVerb(i)

DeclaredBefore(i, j) ==
    \/ grammar[i].src < grammar[j].src
    \/ grammar[i].src = grammar[j].src /\ AliasIdx(i) < AliasIdx(j)

RulePattern(i) ==
    IF impl = "cmd" THEN grammar[i].regex
    ELSE FsmSubst(grammar[i].tmpl.pattern, grammar[i].tmpl.values)

\* pattern p consumes the whole of s
WholeLine(p, s) ==
    MatchFrom(p \o <<REol>>, s, 1, [n \in Range(GroupNames(p)) |-> None]) # <<>>

\* C2: parse_command returns the record of the first rule, in rule-set
\* order, whose pattern matches the entire line; the rules after it are
\* not tried and do not change the result.
C2_FirstFullMatchWins ==
    Matching =>
        /\ pc = "scan" =>
              /\ result = NoResult
              /\ tried = UpTo(k - 1)
              /\ \A i \in 1..(k - 1) : ~MatchesLine(i)
        /\ (Done /\ MatchingRules # {}) =>
              LET f == FirstOf(MatchingRules) IN
              /\ pc = "matched"
              /\ k = f
              /\ tried = UpTo(f)
              /\ result = RuleRecord(grammar[f], RuleMatch(grammar[f], line).groups)
              /\ WholeLine(RulePattern(f), line)

\* a rule has won while a later rule matches the line with another record
C2_LaterRuleAlsoMatches ==
    /\ Matching /\ pc = "matched"
    /\ \E a \in MatchingRules :
          /\ a > k
          /\ RuleRecord(grammar[a], RuleMatch(grammar[a], line).groups) # result

\* C3: when no rule matches the line the matcher ends with the explicit
\* unmatched result, after every rule was tried, and the next line can be
\* parsed; the process only ever aborts before the first line.
C3_UnmatchedIsExplicit ==
    Matching =>
        /\ pc = "unmatched" =>
              /\ result = NoResult
              /\ tried = UpTo(Len(grammar))
              /\ MatchingRules = {}
              /\ \A l \in Lines : ENABLED StartLine(l)
        /\ (Done /\ MatchingRules = {}) => pc = "unmatched"
        /\ pc = "fatal" => line = <<>> /\ tried = <<>>

\* a line went unmatched on a rule set of several rules that matches
\* another line
C3_UnmatchedLine ==
    /\ Matching /\ pc = "unmatched"
    /\ Len(grammar) >= 2
    /\ \E l \in Lines, i \in DOMAIN grammar :
          RuleMatch(grammar[i], IF impl = "cmd" THEN Strip(l) ELSE l).ok

\* the rules compiled from row r, in rule-set order
RulesOf(r) == SelectSeq(grammar, LAMBDA g : g.src = r)

Compiled == impl \in {"cmd", "transf"} /\ pc = "ready"

\* a template that ends in an optional block after a mandatory part of
\* literal words
EndsInOpt(tpl) ==
    /\ Len(tpl) >= 2
    /\ tpl[Len(tpl)].k = "opt"
    /\ \A i \in 1..(Len(tpl) - 1) : tpl[i].k = "lit"

\* the line of the mandatory part of a rule, single blanks, no trailing blank
MandLine(rule) ==
    Intersperse(<<rule.verb, rule.obj>>
                   \o [i \in 1..(Len(rule.tpl) - 1) |-> rule.tpl[i].w], SPC)

\* the rule matches the line of its mandatory part and every slot of the
\* optional block is absent
AbsentOk(rule) ==
    IF impl = "cmd"
    THEN LET m == ReMatch(rule.regex, MandLine(rule))
             o == rule.regex[Len(rule.regex) - 1]
         IN /\ m.ok
            /\ \A n \in Range(GroupNames(<<o>>)) : m.groups[n] = None
    ELSE LET m == FsmParseText(rule.pattern, rule.values, MandLine(rule))
         IN /\ m.ok
            /\ LET toks == BuildRecord(rule, m.groups, MandLine(rule)).arg_tokens
               IN \A j \in DOMAIN toks : toks[j].optional => toks[j].value = None

\* C4: a rule compiled from a template that ends in an optional block
\* matches the line made of the mandatory part only, and every slot declared
\* inside the optional block resolves to the absent marker.
C4_AbsentOptionalMatches ==
    Compiled =>
        \A i \in DOMAIN grammar : EndsInOpt(grammar[i].tpl) => AbsentOk(grammar[i])

\* C5: the record of a match reassembles (verb, object and every token
\* value that is not absent, joined by single blanks) to the
\* whitespace-normalized line that was matched.
C5_RoundTrip ==
    (impl = "transf" /\ pc = "matched") =>
        reassemble_command(result) = normalize_space(result.RAW)

\* a line with several blanks in a row matched a rule whose optional block
\* is absent
C5_AbsentOptionalRoundTrip ==
    /\ impl = "transf" /\ pc = "matched"
    /\ result.RAW # normalize_space(result.RAW)
    /\ \E j \in DOMAIN result.arg_tokens :
          result.arg_tokens[j].optional /\ result.arg_tokens[j].value = None

AliasSeps == {"/", "|", ","}

\* the aliases a verb field lists
AliasesOf(field) == SelectSeq(SplitOn(field, AliasSeps, <<>>), NonEmpty)

SlotStructure(rule) ==
    IF impl = "cmd" THEN GroupNames(rule.regex) ELSE rule.arg_token_templates

\* the rules rs are one per alias of al, in order, and share object,
\* template and slot structure
OnePerAlias(rs, al, tpl) ==
    /\ Len(rs) = Len(al)
    /\ \A i \in DOMAIN rs :
          /\ rs[i].verb = al[i]
          /\ rs[i].obj = rs[1].obj
          /\ rs[i].tpl = tpl
          /\ SlotStructure(rs[i]) = SlotStructure(rs[1])

\* C6: a row whose verb field lists N aliases separated by "/", "|" or ","
\* gives exactly N rules, one per alias in listed order, that share object,
\* template and slot structure.
C6_OneRulePerAlias ==
    Compiled =>
        \A r \in DOMAIN sheet :
            (sheet[r].verb # <<>> /\ RulesOf(r) # <<>>) =>
                OnePerAlias(RulesOf(r), AliasesOf(sheet[r].verb), sheet[r].tpl)

\* C7: a row with a blank verb is compiled with the full verb field and the
\* object of the nearest row above that has them: it gives one rule for
\* each alias of that verb field.
C7_ContinuationInheritsAll ==
    Compiled =>
        \A r \in DOMAIN sheet :
            (sheet[r].verb = <<>> /\ RulesOf(r) # <<>>) =>
                /\ OnePerAlias(RulesOf(r), AliasesOf(FFill(sheet, r, "verb", <<>>)),
                               sheet[r].tpl)
                /\ RulesOf(r)[1].obj = FFill(sheet, r, "obj", "")

\* C8: no two slots of a rule written by transf.py carry the same name.
C8_SlotNamesUnique ==
    (impl = "transf" /\ pc = "ready") =>
        \A i \in DOMAIN grammar : Distinct(grammar[i].vlist)

\* a template with unbalanced delimiters or an alternation without options
Malformed(tpl) ==
    \E i \in DOMAIN tpl :
        \/ tpl[i].k = "lit" /\ OpensBracket(tpl[i].w)
        \/ tpl[i].k = "choice" /\ SelectSeq(tpl[i].opts, NonEmpty) = <<>>

\* the sheet with the template cell of every malformed row emptied
GoodSheet ==
    [r \in DOMAIN sheet |->
        IF Malformed(sheet[r].tpl) THEN [sheet[r] EXCEPT !.tpl = <<>>] ELSE sheet[r]]

\* C9: a row with a malformed template contributes no rule, and the other
\* rows are compiled exactly as if the malformed row had no template.
C9_BadRowIsolated ==
    Compiled =>
        /\ \A r \in DOMAIN sheet : Malformed(sheet[r].tpl) => RulesOf(r) = <<>>
        /\ impl = "cmd" => grammar = LoadGrammarOf(GoodSheet)

\* the slots a rule declares, in declared order
DeclaredSlots(rule) ==
    IF impl = "cmd" THEN GroupNames(rule.regex)
    ELSE [i \in DOMAIN rule.tmpl.header |-> HeaderLower(rule.tmpl.header[i])]

\* the slot a key of args stands for (cmd_parser appends the constant word)
SlotOfKey(rule, key) ==
    IF impl = "cmd"
    THEN CHOOSE n \in Range(GroupNames(rule.regex)) :
            key = CmdRecord(rule, [g \in Range(GroupNames(rule.regex)) |-> None])
                     .args[CHOOSE i \in DOMAIN GroupNames(rule.regex) :
                              GroupNames(rule.regex)[i] = n][1]
    ELSE key

\* C10: the record of a match holds every declared slot of the matched rule
\* exactly once, in declared order, absent slots included.
C10_EverySlotInRecord ==
    (Matching /\ pc = "matched") =>
        [i \in DOMAIN result.args |-> SlotOfKey(grammar[k], result.args[i][1])]
            = DeclaredSlots(grammar[k])

\* the words of a line
Words(l) == SelectSeq(l, LAMBDA x : x # SPC)

\* a template that is one choice token with at least one option, none empty
ChoiceOnly(tpl) ==
    /\ Len(tpl) = 1
    /\ tpl[1].k = "choice"
    /\ tpl[1].opts # <<>>
    /\ \A i \in DOMAIN tpl[1].opts : tpl[1].opts[i] # ""

\* a rule of the loaded rule set matches line l
RuleAccepts(rule, l) ==
    IF impl = "cmd" THEN ReMatch(rule.regex, Strip(l)).ok
    ELSE /\ FsmLoads(rule.pattern, rule.values, rule.broken)
         /\ FsmParseText(rule.pattern, rule.values, l).ok

\* the values of the named slots of a record
SlotValues(rec) ==
    IF impl = "cmd" THEN {rec.args[i][2] : i \in DOMAIN rec.args}
    ELSE {rec.arg_tokens[i].value :
             i \in {j \in DOMAIN rec.arg_tokens : rec.arg_tokens[j].name # None}}

\* C11: a rule whose template is a choice {a|b|c} matches a line whose
\* token is one of a, b, c and records the token as the value of a named
\* slot; a line whose token is not in the set fails the rule.
C11_ChoiceIsNamedSlot ==
    /\ (impl \in {"cmd", "transf"} /\ pc = "matched" /\ ChoiceOnly(grammar[k].tpl)) =>
          /\ Words(line)[3] \in Range(grammar[k].tpl[1].opts)
          /\ Words(line)[3] \in SlotValues(result)
    /\ Compiled =>
          \A i \in DOMAIN grammar : ChoiceOnly(grammar[i].tpl) =>
              \A l \in Lines :
                  (/\ Len(Words(l)) = 3
                   /\ Words(l)[1] = grammar[i].verb
                   /\ Words(l)[2] = grammar[i].obj) =>
                      (RuleAccepts(grammar[i], l)
                          <=> Words(l)[3] \in Range(grammar[i].tpl[1].opts))

\* the output keys the variable slots of a template should get in flat
\* serialization, in template order: slot name, qualified by the literal
\* keyword directly before the placeholder when there is one (prev is the
\* token before toks, <<>> when there is none)
RECURSIVE FlatKeys(_, _)
FlatKeys(toks, prev) ==
    IF toks = <<>> THEN <<>>
    ELSE LET h == Head(toks) IN
         (CASE h.k = "var" ->
                 IF prev # <<>> /\ prev[1].k = "lit"
                 THEN <<SanitizeKey(h.w) \o "\\" \o prev[1].w>>
                 ELSE <<SanitizeKey(h.w)>>
            [] h.k = "opt" -> FlatKeys(h.inner, <<>>)
            [] OTHER -> <<>>) \o FlatKeys(Tail(toks), <<h>>)

\* C12: in flat serialization the key of every variable slot of the
\* matched rule is slotname\constantword when a literal keyword stands
\* directly before the placeholder in the template, and slotname otherwise.
C12_FlatKeys ==
    (impl = "cmd" /\ pc = "matched") =>
        [i \in DOMAIN result.args |-> result.args[i][1]]
            = FlatKeys(grammar[k].tpl, <<>>)

\* the result of matching line l alone on the freshly loaded rules, from
\* rule i on
RECURSIVE FreshParse(_, _, _)
FreshParse(rules, i, l) ==
    IF i > Len(rules) THEN NoResult
    ELSE IF RuleMatch(rules[i], l).ok
         THEN RuleRecord(rules[i], RuleMatch(rules[i], l).groups)
         ELSE FreshParse(rules, i + 1, l)

\* C13: whatever lines were matched before on the same loaded rule set, the
\* result for a line is the result of matching that line alone on a freshly
\* loaded rule set, and every matcher object that was used for the line
\* holds what the line alone leaves in it.
C13_PureFunction ==
    (Matching /\ Done) =>
        /\ result = FreshParse(grammar, 1, line)
        /\ impl = "fsm" =>
              \A j \in Range(tried) :
                  fsm[j] = FsmParse(<<>>, grammar[j].tmpl.pattern,
                                    grammar[j].tmpl.values, line)

\* a line was matched on a rule set in which a matcher object that was not
\* used for this line still holds the record of an earlier line
C13_AfterEarlierLine ==
    /\ impl = "fsm" /\ pc = "matched"
    /\ \E j \in DOMAIN fsm : j > k /\ fsm[j] # <<>>

\* what conv_tokens returns for the command body of rule r, before the
\* anchor is spliced
PreSplice(r) ==
    ConvTokens(<<Lit(r.verb), Lit(r.obj)>> \o r.tpl,
               ConvState(<<>>, <<>>, <<>>, EmptyMap, EmptyMap), FALSE)

\* the mandatory literal keywords among the argument tokens of rule r
ArgKeywords(r) ==
    SelectSeq(r.arg_token_templates,
              LAMBDA tt : tt.type = "keyword" /\ ~tt.is_optional)

\* the place in pattern p of the last literal element
LastLit(p) ==
    CHOOSE i \in DOMAIN p : p[i].t = "lit" /\ \A j \in DOMAIN p : p[j].t = "lit" => j <= i

\* rule r carries its anchor: one added slot for the last mandatory keyword,
\* spliced in at that keyword
AnchorSpliced(r) ==
    LET st  == PreSplice(r)
        pre == ConvPattern(st)
        kws == ArgKeywords(r)
    IN IF kws = <<>>
       THEN /\ r.pattern = pre \o <<RWs0, REol>>
            /\ r.vlist = st.vars
       ELSE LET literal == kws[Len(kws)].value
            IN \E name \in Range(r.vlist) \ Range(st.vars) :
                  /\ r.vlist = Append(st.vars, name)
                  /\ r.values[name] = <<literal>>
                  /\ pre[LastLit(pre)].w = literal
                  /\ r.pattern = [pre EXCEPT ![LastLit(pre)] = RRef(name)]
                                    \o <<RWs0, REol>>
                  /\ ~r.broken

\* C14: in every rule transf.py writes, the last mandatory literal keyword
\* of the argument tokens is the anchor: exactly one slot is added, its only
\* allowed value is that literal, and the literal's own place in the pattern
\* holds the reference to the slot; a rule without such a keyword keeps
\* pattern and slot list as they were.
C14_AnchorReplacesOwnLiteral ==
    impl = "transf" => \A i \in DOMAIN grammar : AnchorSpliced(grammar[i])

\* line l is in the language of the rule line made of pattern p and the
\* Value definitions values
InLanguage(p, values, l) == ReMatch(FsmSubst(p, values), l).ok

\* the rule line of rule r as it would be written without the anchor
Unanchored(r) == ConvPattern(PreSplice(r)) \o <<RWs0, REol>>

\* C15: splicing the anchor into a rule of transf.py leaves the set of
\* accepted lines as it was, every slot that conv_tokens declared is still
\* referenced by the final pattern, and the replaced text is never a piece
\* of another element of the pattern.
C15_SplicePreservesLanguage ==
    impl = "transf" =>
        \A i \in DOMAIN grammar :
            /\ ~grammar[i].broken
            /\ Range(PreSplice(grammar[i]).vars)
                  \subseteq Range(RefNames(grammar[i].pattern))
            /\ \A l \in Lines :
                  InLanguage(Unanchored(grammar[i]), PreSplice(grammar[i]).vmap, l)
                     <=> /\ ~grammar[i].broken
                         /\ InLanguage(grammar[i].pattern, grammar[i].values, l)

\* C16: the verb and object parse_command reports for a matched line, read
\* back from the name of the matching template file, are the verb and object
\* that file was written for, and no two files of the directory share a name.
C16_FileNameRoundTrip ==
    impl = "fsm" =>
        /\ \A f, g \in dir : f.name = g.name => f = g
        /\ pc = "matched" =>
              \A j \in DOMAIN grammar :
                  result.template = grammar[j].name =>
                      /\ result.verb = grammar[j].vb
                      /\ result.object = grammar[j].obj

====
